---- MODULE Spec2Model ----
(***************************************************************************)
(* Model of drip-labs/backfill-from-irys.                                  *)
(*                                                                         *)
(*   fetchArweaveChunks  (src/src/reupload.mjs 341-446): resolve the       *)
(*       {offset,size} of a transaction, fetch the chunks that cover it    *)
(*       from a list of peers, assemble them and write <txid>.bin.         *)
(*   reuploadChunks      (src/src/reupload.mjs 9-104, src/src/reupload.cjs)*)
(*       POST every rebuilt chunk with bounded retry.                      *)
(*   pollArweave         (src/src/index.mjs 60-83,                         *)
(*       src/src/arweave-fix-all.mjs 7-30): probe the gateway until the    *)
(*       transaction is served or the attempts are used up.                *)
(*   fixArweaveTx        (src/src/index.mjs 85-149) with checkTx           *)
(*       (src/src/reupload.mjs 505-541): look the transaction up, then     *)
(*       fetch, reupload and poll.                                         *)
(*                                                                         *)
(* A byte of the weave is identified by its absolute position, so a byte   *)
(* that is duplicated, dropped or taken from the wrong place is visible in *)
(* the assembled payload.                                                  *)
(***************************************************************************)
EXTENDS Integers, Sequences, FiniteSets, TLC

\* ------------------------------------------------------------------ bounds
NumPeers == 3
WeaveEnd == 4
MaxChunk == 2
MaxSize == 3
MaxChunks == 4
MaxAttempts == 6
FixChunks == 1
NumRequests == 2
MaxLines == 3
MaxCallerPeers == 2
MaxText == 3
MaxPeersArg == 4
MaxSeeds == 3
MaxListed == 2

\* ------------------------------------------------------- program constants
MAX_RETRIES_PER_CHUNK == 5
RETRY_DELAY_MS_BASE == 750

VARIABLES
  \* fetchArweaveChunks
  pc,          \* position of the run: "offset", "loop", "chunk", "slice", "finish", "done", "failed"
  allPeers,    \* the peer list of the run
  peerIdx,     \* index of the peer the running for-of loop contacts next
  errors,      \* the errors array of the running fetchTxOffset / fetchChunk call
  contacted,   \* history: the peers the running (or last) call has contacted, in order
  failedBefore,\* history: the first peer of the list failed in an earlier call of this run
  answer,      \* raw JSON of the peer response the last call returned from
  range,       \* {offset, size} of what fetchTxOffset returned (the caller drops peer)
  startOffset,
  nextPos,
  bytesAccum,
  buffers,     \* the usable slices pushed so far (empty slices add nothing to the concat and are not kept)
  window,      \* {buf, start, end} returned by the last fetchChunk
  repeat,      \* history: at the loop test, nextPos is the position of the last chunk request
  stall,       \* history: 0, or 1 once a request repeated the position of the one before it,
               \* or 2 once another request followed such a pair
  honest,      \* history: every window so far held the true bytes of the chunk containing the requested position
  file,        \* content of <txid>.bin
  file0,       \* history: content of <txid>.bin when the run started
  failure,     \* the error thrown by the run
  causes,      \* e.causes of the thrown error
  \* reuploadChunks
  upc,         \* "for", "try", "sleep", "end", "returned", "thrown", "exited"
  variant,     \* "mjs" (reuploadChunks) or "cjs" (the stand-alone script)
  totalChunks,
  valid,       \* valid[i]: validatePath accepts rebuilt chunk i
  i,
  attempt,
  successCount,
  failedChunks,
  chunkState,  \* history: per chunk "pending", "accepted", "failed"
  posts,       \* history: POSTs issued per chunk
  validations, \* history: validatePath calls per chunk
  delays,      \* history: backoff delays slept for the current chunk
  order,       \* history: the chunk indices the for loop has entered, in order
  allPresent,  \* history: every POST of the run so far was answered 208 (already present)
  latePost,    \* history: a chunk was POSTed after its processing had ended
  \* pollArweave
  ppc,         \* "idle", "check", "timer", "resolved", "rejected"
  maxAttempts,
  attempts,
  probes,      \* history: for each HEAD probe made, in order, whether it reported success
  lastHead,    \* history: the answer to the last HEAD probe
  settles,     \* history: calls of resolve or reject
  \* fixArweaveTx
  stage,       \* "idle", "arweave", "irys", "fetch", "reupload", "poll", "returned", "thrown"
  res,         \* what checkTx returned: its source and bundle_id
  fixStatus,   \* status of the returned object
  lookups,     \* history: the services checkTx has asked, in order, and what each found
  started,     \* history: the stages started, each with the id it works on and
               \* whether the stage before it had succeeded when it started
  \* the /fix server
  handler,     \* "index" (src/src/index.mjs) or "part_000" (the console-patching one)
  console,     \* the functions console.log and console.error are at the moment
  rpc,         \* per request: "idle", "running", "done"
  orig,        \* per request: origLog and origError of its handler
  logger,      \* per request: logger and errorLogger of its fixArweaveTx run
  lines,       \* history: per request, the log lines its run has produced
  received,    \* history: per request, the requests whose log lines were written to its response
  lateWrite,   \* history: a log line was written to a response after res.end()
  \* concurrent runs of fixArweaveTx on one bundle id
  artifact,    \* content of the <bundle id>.bin the runs share
  rstage,      \* per run: "offset", "loop", "written", "read", "done", "thrown"
  rsize,       \* per run: size resolved by its fetchTxOffset
  racc,        \* per run: bytes its assembly loop has accumulated in memory
  rdata,       \* per run: what its reuploadChunks read from the file
  \* the peer list of fetchArweaveChunks, as texts
  lpc,         \* "args" before the list is built, "built" after
  optsPeers,   \* opts.peers: a list of texts, each a sequence of pieces
  peerTexts,   \* allPeers as texts
  \* discoverPeers
  dpc,         \* "while", "call", "returned"
  maxPeers,    \* the maxPeers argument
  queue,       \* queue
  visited,     \* visited
  out,         \* out
  norm,        \* the peer whose /peers is being fetched
  returned,    \* the list discoverPeers returned
  mentioned,   \* history: the normalised texts in the order of their first mention
  failedCalls, \* history: the peers whose /peers call failed or gave no list
  calls        \* history: the number of /peers calls

fetchVars == <<pc, allPeers, peerIdx, errors, contacted, failedBefore, answer, range,
               startOffset, nextPos, bytesAccum, buffers, window, repeat, stall, honest,
               file, file0, failure, causes>>
uploadVars == <<upc, variant, totalChunks, valid, i, attempt, successCount,
                failedChunks, chunkState, posts, validations, delays, order,
                allPresent, latePost>>
pollVars == <<ppc, maxAttempts, attempts, probes, lastHead, settles>>
fixVars == <<stage, res, fixStatus, lookups, started>>
serverVars == <<handler, console, rpc, orig, logger, lines, received, lateWrite>>
raceVars == <<artifact, rstage, rsize, racc, rdata>>
listVars == <<lpc, optsPeers, peerTexts>>
discoverVars == <<dpc, maxPeers, queue, visited, out, norm, returned, mentioned,
                  failedCalls, calls>>
sideVars == <<serverVars, raceVars, listVars, discoverVars>>
vars == <<fetchVars, uploadVars, pollVars, fixVars, sideVars>>

\* ----------------------------------------------------------------- values
None == "none"
\* <txid>.bin: absent, or the bytes it holds. An artifact left by an earlier run
\* holds a byte that is none of the weave's.
NoFile == [exists |-> FALSE, data |-> <<>>]
OldFile == [exists |-> TRUE, data |-> <<0 - 7>>]
FileOf(bytes) == [exists |-> TRUE, data |-> bytes]

RECURSIVE Concat(_)
Concat(ss) == IF ss = <<>> THEN <<>> ELSE Head(ss) \o Concat(Tail(ss))

\* The bytes of the weave at absolute positions s .. s+n-1.
Bytes(s, n) == [k \in 1..n |-> s + k - 1]

\* ------------------------------------------------ decimal strings and BigInt
Digits == <<"0", "1", "2", "3", "4", "5", "6", "7", "8", "9">>

DigitVal(c) == CHOOSE d \in 0..9 : Digits[d + 1] = c

IsDigit(c) == \E d \in 0..9 : Digits[d + 1] = c

RECURSIVE NatOfDigits(_)
NatOfDigits(s) ==
  IF s = <<>> THEN 0
  ELSE 10 * NatOfDigits(SubSeq(s, 1, Len(s) - 1)) + DigitVal(s[Len(s)])

\* BigInt(string): a SyntaxError for anything that is not an optionally signed
\* run of decimal digits.
BigIntOf(s) ==
  LET neg == Len(s) > 0 /\ s[1] = "-"
      ds == IF neg THEN Tail(s) ELSE s
  IN IF Len(ds) > 0 /\ \A k \in 1..Len(ds) : IsDigit(ds[k])
     THEN [ok |-> TRUE, val |-> IF neg THEN 0 - NatOfDigits(ds) ELSE NatOfDigits(ds)]
     ELSE [ok |-> FALSE, val |-> 0]

\* The decimal string a peer's JSON carries for the number n.
RECURSIVE DecNat(_)
DecNat(n) == IF n < 10 THEN <<Digits[n + 1]>> ELSE DecNat(n \div 10) \o <<Digits[(n % 10) + 1]>>

Dec(n) == IF n < 0 THEN <<"-">> \o DecNat(0 - n) ELSE DecNat(n)

\* ------------------------------------------------------------ peer answers
\* What one GET can bring: a transport error (timeout, 404, ...), or a JSON body.
\* /tx/<id>/offset: a body without offset or size, or {offset, size} as strings.
OffsetChoices == {1, WeaveEnd}

NotANumber == <<"x">>

OffsetAnswers ==
  {[offset |-> Dec(o), size |-> Dec(s)] : o \in OffsetChoices, s \in (0 - 1)..MaxSize}
    \cup {[offset |-> Dec(WeaveEnd), size |-> NotANumber]}

\* Answers with the sizes of real transactions, for the start offset alone.
WideNumbers == {0, 1, 999, 1000, 65536, 16777216, 2147483646}

WideAnswers == {[offset |-> Dec(o), size |-> Dec(s)] : o \in WideNumbers, s \in WideNumbers}

\* /chunk/<pos>: a body without a chunk string, or the bytes of some stretch of the
\* weave, with or without the optional offset field (the stretch's last position).
\* The stretches of n bytes are the chunks that contain pos, the one that ends right
\* before it and the one that starts right after it; the single byte two positions
\* before pos; the empty chunk at pos.
ChunkStarts(pos, n) ==
  {s \in (pos - n - 1)..(pos + 1) :
     /\ s >= 0
     /\ n = 0 => s = pos
     /\ n > 1 => s >= pos - n}

\* Without the offset field the position of the bytes does not reach the caller:
\* the chunk that starts at pos and the one that starts one byte before it.
UnlabelledStarts(pos, n) == {s \in (pos - 1)..pos : s >= 0 /\ (n = 0 => s = pos)}

ChunkAnswers(pos) ==
  UNION {{[chunk |-> Bytes(s, n), hasOffset |-> TRUE, offset |-> Dec(s + n - 1)] :
            s \in ChunkStarts(pos, n)}
         \cup {[chunk |-> Bytes(s, n), hasOffset |-> FALSE, offset |-> <<>>] :
            s \in UnlabelledStarts(pos, n)} : n \in 0..MaxChunk}

\* ------------------------------------------------------------ pure helpers
\* Mutant: the iteration skips a peer.
NextPeerSkips(idx) == idx + 2

\* for (const p of peers): the next element of the iteration.
NextPeer(idx) == idx + 1

\* The for-of loop goes on while elements are left.
HasNext(idx, peers) == idx <= Len(peers)

\* Mutant: the first failure of a peer ends the call.
CallEndsOnFailure(idx, peers) == FALSE

\* After a peer's failure the loop goes on with the peer at idx, if there is one;
\* only past the last peer does the call throw.
CallGoesOn(idx, peers) == idx <= Len(peers)

\* Mutant: a malformed response leaves no error behind.
ErrorsAfterMalformedLost(errs, p) == errs

\* errors.push(new Error(`Malformed response from ${p}`))
ErrorsAfterMalformed(errs, p) == Append(errs, [peer |-> p, kind |-> "malformed"])

\* errors.push(err) in the catch block
ErrorsAfterThrow(errs, p, k) == Append(errs, [peer |-> p, kind |-> k])

\* Mutant: the start offset is taken one byte early.
StartOffsetOffByOne(endOffset, size) == endOffset - size

\* const startOffset = endOffset - size + 1n
StartOffsetOf(endOffset, size) == endOffset - size + 1

\* fetchChunkFromPeer, once the body holds a chunk string: the window it returns.
FetchChunkFromPeer(json, absPos) ==
  LET buf == json.chunk
      respEnd == IF json.hasOffset THEN BigIntOf(json.offset).val
                 ELSE absPos + Len(buf) - 1
      chunkStart == respEnd - Len(buf) + 1
  IN [buf |-> buf, start |-> chunkStart, end |-> respEnd]

\* Mutant: the overlap at the front of a window is not trimmed.
SliceStartUntrimmed(start, pos) == 0

\* let sliceStart = 0; if (start < nextPos) sliceStart = Number(nextPos - start)
SliceStart(start, pos) == IF start < pos THEN pos - start ELSE 0

\* buf.slice(k): the bytes from index k on; empty when k is past the end.
SliceFrom(buf, k) == IF k >= Len(buf) THEN <<>> ELSE SubSeq(buf, k + 1, Len(buf))

\* usable = buf.slice(sliceStart), cut to the bytes still missing.
Usable(buf, sliceStart, remaining) ==
  LET u == SliceFrom(buf, sliceStart)
  IN IF Len(u) > remaining THEN SubSeq(u, 1, remaining) ELSE u

\* nextPos = start + BigInt(buf.length)
NextPosAfter(start, buf) == start + Len(buf)

\* Mutant: the run returns whatever the assembled length is.
FinishStatusUnchecked(len, size) == "done"

\* if (BigInt(outBuf.length) !== size) throw ...; otherwise the run returns.
FinishStatus(len, size) == IF len # size THEN "failed" ELSE "done"

\* Mutant: the file is written before the length is checked.
ArtifactWrittenFirst(old, outBuf, size) == FileOf(outBuf)

\* fs.writeFileSync(opts.outfile, outBuf) comes after the length check.
ArtifactAfter(old, outBuf, size) == IF Len(outBuf) # size THEN old ELSE FileOf(outBuf)

\* The stall history after a request, rep telling whether it repeats the position of
\* the request before it.
StallAfter(st, rep) == IF st >= 1 THEN 2 ELSE IF rep THEN 1 ELSE 0

\* The window holds the weave's bytes at the positions it names, and those
\* positions include the requested one.
WindowTrue(w, pos) ==
  /\ w.buf = Bytes(w.start, Len(w.buf))
  /\ w.end = w.start + Len(w.buf) - 1
  /\ w.start <= pos
  /\ pos <= w.end

\* ------------------------------------------------------- fetchArweaveChunks
NoRange == [offset |-> 0, size |-> 0]
NoWindow == [buf |-> <<>>, start |-> 0, end |-> 0 - 1]
NoAnswer == [kind |-> None]

UploadIdle ==
  /\ upc = "idle"
  /\ variant = "mjs"
  /\ totalChunks = 0
  /\ valid = <<>>
  /\ i = 0
  /\ attempt = 0
  /\ successCount = 0
  /\ failedChunks = <<>>
  /\ chunkState = <<>>
  /\ posts = <<>>
  /\ validations = <<>>
  /\ delays = <<>>
  /\ order = <<>>
  /\ allPresent = TRUE
  /\ latePost = FALSE

PollIdle ==
  /\ ppc = "idle"
  /\ maxAttempts = 0
  /\ attempts = 0
  /\ probes = <<>>
  /\ lastHead = [kind |-> None]
  /\ settles = 0

NoRes == [source |-> "not returned", bundle_id |-> None]

FixIdle ==
  /\ stage = "idle"
  /\ res = NoRes
  /\ fixStatus = None
  /\ lookups = <<>>
  /\ started = <<>>

\* The functions Node installed: they write to stdout / stderr only.
Original == [kind |-> "original", req |-> 0]
OriginalConsole == [log |-> Original, error |-> Original]

ServerIdle ==
  /\ handler = "index"
  /\ console = OriginalConsole
  /\ rpc = <<>>
  /\ orig = <<>>
  /\ logger = <<>>
  /\ lines = <<>>
  /\ received = <<>>
  /\ lateWrite = FALSE

RaceIdle ==
  /\ artifact = NoFile
  /\ rstage = <<>>
  /\ rsize = <<>>
  /\ racc = <<>>
  /\ rdata = <<>>

ListIdle ==
  /\ lpc = "idle"
  /\ optsPeers = <<>>
  /\ peerTexts = <<>>

DiscoverIdle ==
  /\ dpc = "idle"
  /\ maxPeers = 0
  /\ queue = <<>>
  /\ visited = {}
  /\ out = <<>>
  /\ norm = <<>>
  /\ returned = <<>>
  /\ mentioned = <<>>
  /\ failedCalls = {}
  /\ calls = 0

SideIdle == ServerIdle /\ RaceIdle /\ ListIdle /\ DiscoverIdle

\* The run has built its peer list and enters fetchTxOffset.
Init ==
  /\ pc = "offset"
  /\ allPeers = [k \in 1..NumPeers |-> k]
  /\ peerIdx = 1
  /\ errors = <<>>
  /\ contacted = <<>>
  /\ failedBefore = FALSE
  /\ answer = NoAnswer
  /\ range = NoRange
  /\ startOffset = 0
  /\ nextPos = 0
  /\ bytesAccum = 0
  /\ buffers = <<>>
  /\ window = NoWindow
  /\ repeat = FALSE
  /\ stall = 0
  /\ honest = TRUE
  /\ file \in {NoFile, OldFile}
  /\ file0 = file
  /\ failure = None
  /\ causes = <<>>
  /\ UploadIdle
  /\ PollIdle
  /\ FixIdle
  /\ SideIdle

InCall == pc \in {"offset", "chunk"}

FirstFailed(errs) == Len(errs) > 0

\* The peer at peerIdx failed with the errors array now errs: the loop goes to the
\* next peer, or the call throws with e.causes = errors.
PeerFailed(errs) ==
  /\ errors' = errs
  /\ contacted' = Append(contacted, allPeers[peerIdx])
  /\ peerIdx' = NextPeer(peerIdx)
  /\ IF CallGoesOn(NextPeer(peerIdx), allPeers)
     THEN /\ pc' = pc
          /\ UNCHANGED <<failure, causes, failedBefore>>
     ELSE /\ pc' = "failed"
          /\ failure' = IF pc = "offset" THEN "offset: no peer" ELSE "chunk: all peers failed"
          /\ causes' = errs
          /\ failedBefore' = (failedBefore \/ FirstFailed(errs))
  /\ UNCHANGED <<allPeers, answer, range, startOffset, nextPos, bytesAccum, buffers,
                 window, repeat, stall, honest, file, file0>>
  /\ UNCHANGED <<uploadVars, pollVars, fixVars, sideVars>>

\* axios.get rejects (fetchTxOffset's catch, or fetchChunk's).
PeerThrows ==
  /\ InCall
  /\ HasNext(peerIdx, allPeers)
  /\ PeerFailed(ErrorsAfterThrow(errors, allPeers[peerIdx], "transport"))

\* fetchTxOffset: the body lacks offset or size.
OffsetPeerMalformed ==
  /\ pc = "offset"
  /\ HasNext(peerIdx, allPeers)
  /\ PeerFailed(ErrorsAfterMalformed(errors, allPeers[peerIdx]))

\* fetchTxOffset: the body has offset and size; BigInt() of either may throw, which
\* the catch turns into this peer's error. Otherwise the call returns and the run
\* computes the start offset and initialises the loop.
OffsetAnswered(json) ==
  LET o == BigIntOf(json.offset)
      s == BigIntOf(json.size)
  IN IF o.ok /\ s.ok
     THEN /\ answer' = json
          /\ range' = [offset |-> o.val, size |-> s.val]
          /\ contacted' = Append(contacted, allPeers[peerIdx])
          /\ failedBefore' = (failedBefore \/ FirstFailed(errors))
          /\ startOffset' = StartOffsetOf(o.val, s.val)
          /\ nextPos' = StartOffsetOf(o.val, s.val)
          /\ bytesAccum' = 0
          /\ buffers' = <<>>
          /\ pc' = "loop"
          /\ errors' = <<>>
          /\ UNCHANGED <<allPeers, peerIdx, window, repeat, stall, honest, file, file0,
                         failure, causes>>
          /\ UNCHANGED <<uploadVars, pollVars, fixVars, sideVars>>
     ELSE PeerFailed(ErrorsAfterThrow(errors, allPeers[peerIdx], "syntax"))

OffsetPeerAnswers ==
  /\ pc = "offset"
  /\ HasNext(peerIdx, allPeers)
  /\ \E json \in OffsetAnswers : OffsetAnswered(json)

OffsetPeerAnswersWide ==
  /\ pc = "offset"
  /\ HasNext(peerIdx, allPeers)
  /\ \E json \in WideAnswers : OffsetAnswered(json)

\* while (bytesAccum < size): either fetchChunk(allPeers, nextPos) is entered, or
\* the loop is left.
LoopEnter ==
  /\ pc = "loop"
  /\ bytesAccum < range.size
  /\ pc' = "chunk"
  /\ peerIdx' = 1
  /\ errors' = <<>>
  /\ contacted' = <<>>
  /\ answer' = NoAnswer
  /\ stall' = StallAfter(stall, repeat)
  /\ repeat' = FALSE
  /\ UNCHANGED <<allPeers, failedBefore, range, startOffset, nextPos, bytesAccum,
                 buffers, window, honest, file, file0, failure, causes>>
  /\ UNCHANGED <<uploadVars, pollVars, fixVars, sideVars>>

LoopExit ==
  /\ pc = "loop"
  /\ ~(bytesAccum < range.size)
  /\ pc' = "finish"
  /\ UNCHANGED <<allPeers, peerIdx, errors, contacted, failedBefore, answer, range,
                 startOffset, nextPos, bytesAccum, buffers, window, repeat, stall, honest,
                 file, file0, failure, causes>>
  /\ UNCHANGED <<uploadVars, pollVars, fixVars, sideVars>>

\* fetchChunkFromPeer: the body has no chunk string ('chunk missing').
ChunkPeerMalformed ==
  /\ pc = "chunk"
  /\ HasNext(peerIdx, allPeers)
  /\ PeerFailed(ErrorsAfterThrow(errors, allPeers[peerIdx], "chunk missing"))

\* fetchChunkFromPeer returns a window; fetchChunk returns it.
ChunkPeerAnswers ==
  /\ pc = "chunk"
  /\ HasNext(peerIdx, allPeers)
  /\ \E json \in ChunkAnswers(nextPos) :
       /\ answer' = json
       /\ window' = FetchChunkFromPeer(json, nextPos)
       /\ honest' = (honest /\ WindowTrue(FetchChunkFromPeer(json, nextPos), nextPos))
  /\ contacted' = Append(contacted, allPeers[peerIdx])
  /\ failedBefore' = (failedBefore \/ FirstFailed(errors))
  /\ errors' = <<>>
  /\ pc' = "slice"
  /\ UNCHANGED <<allPeers, peerIdx, range, startOffset, nextPos, bytesAccum,
                 buffers, repeat, stall, file, file0, failure, causes>>
  /\ UNCHANGED <<uploadVars, pollVars, fixVars, sideVars>>

\* The loop body after fetchChunk: trim, append, count, and either break or advance.
\* buf, start and end are the iteration's own and end with it; after the break they
\* are those of the last iteration.
SliceStep ==
  /\ pc = "slice"
  /\ LET usable == Usable(window.buf, SliceStart(window.start, nextPos),
                          range.size - bytesAccum)
         acc == bytesAccum + Len(usable)
     IN /\ buffers' = IF usable = <<>> THEN buffers ELSE Append(buffers, usable)
        /\ bytesAccum' = acc
        /\ IF acc >= range.size
           THEN /\ pc' = "finish"
                /\ UNCHANGED <<nextPos, window, answer>>
                /\ repeat' = FALSE
           ELSE /\ pc' = "loop"
                /\ nextPos' = NextPosAfter(window.start, window.buf)
                /\ repeat' = (NextPosAfter(window.start, window.buf) = nextPos)
                /\ window' = NoWindow
                /\ answer' = NoAnswer
  /\ UNCHANGED <<allPeers, peerIdx, errors, contacted, failedBefore, range,
                 startOffset, stall, honest, file, file0, failure, causes>>
  /\ UNCHANGED <<uploadVars, pollVars, fixVars, sideVars>>

\* Buffer.concat, the length check, writeFileSync, return.
Finish ==
  /\ pc = "finish"
  /\ LET outBuf == Concat(buffers)
     IN /\ pc' = FinishStatus(Len(outBuf), range.size)
        /\ file' = ArtifactAfter(file, outBuf, range.size)
        /\ failure' = IF Len(outBuf) # range.size THEN "incomplete" ELSE failure
  /\ UNCHANGED <<allPeers, peerIdx, errors, contacted, failedBefore, answer, range,
                 startOffset, nextPos, bytesAccum, buffers, window, repeat, stall, honest,
                 file0, causes>>
  /\ UNCHANGED <<uploadVars, pollVars, fixVars, sideVars>>

Next ==
  \/ PeerThrows
  \/ OffsetPeerMalformed
  \/ OffsetPeerAnswers
  \/ LoopEnter
  \/ LoopExit
  \/ ChunkPeerMalformed
  \/ ChunkPeerAnswers
  \/ SliceStep
  \/ Finish

Spec == Init /\ [][Next]_vars

\* Every network call returns or fails in the end, and the code between two awaits
\* runs: no step of the run that can be taken is put off forever.
SpecFair == Init /\ [][Next]_vars /\ WF_vars(Next)

NextOffset ==
  \/ PeerThrows
  \/ OffsetPeerMalformed
  \/ OffsetPeerAnswersWide

SpecOffset == Init /\ [][NextOffset]_vars

\* ----------------------------------------------------------- reuploadChunks
FetchIdle ==
  /\ pc = "idle"
  /\ allPeers = <<>>
  /\ peerIdx = 1
  /\ errors = <<>>
  /\ contacted = <<>>
  /\ failedBefore = FALSE
  /\ answer = NoAnswer
  /\ range = NoRange
  /\ startOffset = 0
  /\ nextPos = 0
  /\ bytesAccum = 0
  /\ buffers = <<>>
  /\ window = NoWindow
  /\ repeat = FALSE
  /\ stall = 0
  /\ honest = TRUE
  /\ file = NoFile
  /\ file0 = NoFile
  /\ failure = None
  /\ causes = <<>>

\* HTTP statuses of POST /chunk; -1 is the response the .catch makes of a network error.
Statuses == {200, 208, 0 - 1, 400}

\* The file is loaded, the transaction fetched and its chunks rebuilt: the for loop
\* is about to start. validatePath is a function of the data, the same in every attempt.
InitUpload ==
  /\ FetchIdle
  /\ PollIdle
  /\ FixIdle
  /\ SideIdle
  /\ upc = "for"
  /\ variant \in {"mjs", "cjs"}
  /\ totalChunks \in 0..MaxChunks
  /\ valid \in [0..(totalChunks - 1) -> BOOLEAN]
  /\ i = 0
  /\ attempt = 0
  /\ successCount = 0
  /\ failedChunks = <<>>
  /\ chunkState = [k \in 0..(totalChunks - 1) |-> "pending"]
  /\ posts = [k \in 0..(totalChunks - 1) |-> 0]
  /\ validations = [k \in 0..(totalChunks - 1) |-> 0]
  /\ delays = <<>>
  /\ order = <<>>
  /\ allPresent = TRUE
  /\ latePost = FALSE

\* Mutant: the loop steps by two.
NextIndexSkips(k) == k + 2

\* i++
NextIndex(k) == k + 1

\* Mutant: one more retry than the budget.
GiveUpLate(att) == att > MAX_RETRIES_PER_CHUNK + 1

\* if (attempt > MAX_RETRIES_PER_CHUNK)
GiveUp(att) == att > MAX_RETRIES_PER_CHUNK

\* Mutant: the same delay before every retry.
DelayFlat(att) == RETRY_DELAY_MS_BASE

\* const delay = RETRY_DELAY_MS_BASE * attempt
Delay(att) == RETRY_DELAY_MS_BASE * att

\* failedChunks.push(i + 1)
FailedAfter(failed, k) == Append(failed, k + 1)

\* Mutant: 208 Already Reported is not taken for a success.
AcceptedOnlyCreated(status) == status = 200

\* if (resp.status === 200 || resp.status === 208)
Accepted(status) == status = 200 \/ status = 208

\* Mutant: the run returns whatever was counted.
RunOutcomeAlwaysReturns(count, total) == "returned"

\* if (successCount === totalChunks) { ... } else { ...; throw new Error(...) }
RunOutcome(count, total) == IF count = total THEN "returned" ELSE "thrown"

\* arweave.api.post('chunk', chunkObj) for chunk k, answered with status.
Posted(k, status) ==
  /\ posts' = [posts EXCEPT ![k] = @ + 1]
  /\ allPresent' = (allPresent /\ status = 208)
  /\ latePost' = (latePost \/ chunkState[k] # "pending")

\* for (let i = 0; i < totalChunks; i++) { let attempt = 0; ... while (true)
ForEnter ==
  /\ upc = "for"
  /\ i < totalChunks
  /\ attempt' = 0
  /\ delays' = <<>>
  /\ order' = Append(order, i)
  /\ upc' = "try"
  /\ UNCHANGED <<variant, totalChunks, valid, i, successCount, failedChunks, chunkState,
                 posts, validations, allPresent, latePost>>
  /\ UNCHANGED <<fetchVars, pollVars, fixVars, sideVars>>

ForExit ==
  /\ upc = "for"
  /\ ~(i < totalChunks)
  /\ upc' = "end"
  /\ UNCHANGED <<variant, totalChunks, valid, i, attempt, successCount, failedChunks,
                 chunkState, posts, validations, delays, order, allPresent, latePost>>
  /\ UNCHANGED <<fetchVars, pollVars, fixVars, sideVars>>

\* The catch block: count the attempt, then give up on the chunk (reuploadChunks
\* records it and goes on, the script exits) or sleep before the next attempt.
Catch ==
  /\ attempt' = attempt + 1
  /\ IF GiveUp(attempt + 1)
     THEN /\ delays' = delays
          /\ IF variant = "mjs"
             THEN /\ failedChunks' = FailedAfter(failedChunks, i)
                  /\ chunkState' = [chunkState EXCEPT ![i] = "failed"]
                  /\ i' = NextIndex(i)
                  /\ upc' = "for"
             ELSE /\ upc' = "exited"
                  /\ UNCHANGED <<failedChunks, chunkState, i>>
     ELSE /\ delays' = Append(delays, Delay(attempt + 1))
          /\ upc' = "sleep"
          /\ UNCHANGED <<failedChunks, chunkState, i>>

\* Mutant: the chunk is posted whatever validatePath answered.
PostReachedAlways(chunkOk) == TRUE

\* if (!chunkOk) throw ...: the POST below it is reached with a valid path only.
PostReached(chunkOk) == chunkOk

\* getChunk, validatePath: the path does not validate, the throw lands in the catch.
ValidationFails ==
  /\ upc = "try"
  /\ ~valid[i]
  /\ validations' = [validations EXCEPT ![i] = @ + 1]
  /\ IF PostReached(valid[i])
     THEN \E status \in Statuses : Posted(i, status)
     ELSE UNCHANGED <<posts, allPresent, latePost>>
  /\ Catch
  /\ UNCHANGED <<variant, totalChunks, valid, successCount, order>>
  /\ UNCHANGED <<fetchVars, pollVars, fixVars, sideVars>>

\* getChunk, validatePath, POST answered 200 or 208: break.
PostAccepted ==
  /\ upc = "try"
  /\ valid[i]
  /\ \E status \in Statuses : Accepted(status) /\ Posted(i, status)
  /\ validations' = [validations EXCEPT ![i] = @ + 1]
  /\ chunkState' = [chunkState EXCEPT ![i] = "accepted"]
  /\ successCount' = IF variant = "mjs" THEN successCount + 1 ELSE successCount
  /\ i' = NextIndex(i)
  /\ upc' = "for"
  /\ UNCHANGED <<variant, totalChunks, valid, attempt, failedChunks, delays, order>>
  /\ UNCHANGED <<fetchVars, pollVars, fixVars, sideVars>>

\* getChunk, validatePath, POST answered anything else or did not get through: throw.
PostRejected ==
  /\ upc = "try"
  /\ valid[i]
  /\ \E status \in Statuses : ~Accepted(status) /\ Posted(i, status)
  /\ validations' = [validations EXCEPT ![i] = @ + 1]
  /\ Catch
  /\ UNCHANGED <<variant, totalChunks, valid, successCount, order>>
  /\ UNCHANGED <<fetchVars, pollVars, fixVars, sideVars>>

\* await sleep(delay) is over: the while loop tries again.
SleepDone ==
  /\ upc = "sleep"
  /\ upc' = "try"
  /\ UNCHANGED <<variant, totalChunks, valid, i, attempt, successCount, failedChunks,
                 chunkState, posts, validations, delays, order, allPresent, latePost>>
  /\ UNCHANGED <<fetchVars, pollVars, fixVars, sideVars>>

\* After the loop: reuploadChunks returns or throws; the script logs and ends.
End ==
  /\ upc = "end"
  /\ upc' = IF variant = "cjs" THEN "returned" ELSE RunOutcome(successCount, totalChunks)
  /\ UNCHANGED <<variant, totalChunks, valid, i, attempt, successCount, failedChunks,
                 chunkState, posts, validations, delays, order, allPresent, latePost>>
  /\ UNCHANGED <<fetchVars, pollVars, fixVars, sideVars>>

NextUpload ==
  \/ ForEnter
  \/ ForExit
  \/ ValidationFails
  \/ PostAccepted
  \/ PostRejected
  \/ SleepDone
  \/ End

SpecUpload == InitUpload /\ [][NextUpload]_vars

\* -------------------------------------------------------------- pollArweave
Throws == [kind |-> "throws"]

\* axios.head(`https://arweave.net/${txid}`): a 2xx response with its
\* content-length header, or a throw (any other status, no connection).
HeadAnswers ==
  {[kind |-> "response", status |-> s, length |-> n] :
     s \in {200, 204}, n \in {0, 5}} \cup {Throws}

\* if (resp.status === 200)
ProbeOk(head) == head.kind = "response" /\ head.status = 200

\* Mutant: one attempt more than maxAttempts.
PollGivesUpLate(att, max) == att > max

\* if (attempts >= maxAttempts)
PollGivesUp(att, max) == att >= max

\* pollArweave(txid) is called: the promise executor calls check().
PollEntered(max) ==
  /\ ppc' = "check"
  /\ maxAttempts' = max
  /\ attempts' = 0
  /\ probes' = <<>>
  /\ lastHead' = [kind |-> None]
  /\ settles' = 0

InitPoll ==
  /\ FetchIdle
  /\ UploadIdle
  /\ FixIdle
  /\ SideIdle
  /\ ppc = "check"
  /\ maxAttempts \in 1..MaxAttempts
  /\ attempts = 0
  /\ probes = <<>>
  /\ lastHead = [kind |-> None]
  /\ settles = 0

\* check(): attempts++, the HEAD probe, then resolve(true), reject(...) or setTimeout.
PollCheck ==
  /\ ppc = "check"
  /\ attempts' = attempts + 1
  /\ \E head \in HeadAnswers :
       /\ probes' = Append(probes, ProbeOk(head))
       /\ lastHead' = head
       /\ IF ProbeOk(head)
          THEN /\ ppc' = "resolved"
               /\ settles' = settles + 1
          ELSE IF PollGivesUp(attempts + 1, maxAttempts)
          THEN /\ ppc' = "rejected"
               /\ settles' = settles + 1
          ELSE /\ ppc' = "timer"
               /\ settles' = settles
  /\ UNCHANGED maxAttempts
  /\ UNCHANGED <<fetchVars, uploadVars, fixVars, sideVars>>

\* setTimeout(check, interval) fires.
PollTimer ==
  /\ ppc = "timer"
  /\ ppc' = "check"
  /\ UNCHANGED <<maxAttempts, attempts, probes, lastHead, settles>>
  /\ UNCHANGED <<fetchVars, uploadVars, fixVars, sideVars>>

NextPoll ==
  \/ PollCheck
  \/ PollTimer

SpecPoll == InitPoll /\ [][NextPoll]_vars

\* ------------------------------------------------------ checkTx, fixArweaveTx
\* axios.get(`https://node1.irys.xyz/tx/${tx_id}/status`): resp.data, or a throw.
IrysAnswers ==
  {[kind |-> "response", status |-> s, bundleTxId |-> b] :
     s \in {"FINALIZED", "PENDING"}, b \in {None, "bundle"}} \cup {Throws}

\* checkTxArweaveExists: statusOk && contentLength > 0, false on a throw.
CheckTxArweaveExists(head) ==
  /\ head.kind = "response"
  /\ head.status >= 200 /\ head.status < 300
  /\ head.length > 0

\* checkTxIrysBundle: resp.data if FINALIZED with a bundleTxId, else null.
CheckTxIrysBundle(irys) ==
  /\ irys.kind = "response"
  /\ irys.status = "FINALIZED"
  /\ irys.bundleTxId # None

\* Mutant: the run goes on whatever the source is.
AfterLookupGoesOn(source) == None

\* The status fixArweaveTx returns right after the lookup, None when it goes on.
AfterLookup(source) ==
  IF source = "arweave" THEN "already_on_arweave"
  ELSE IF source # "irys" THEN "not_found_on_irys"
  ELSE None

\* Mutant: the stage after the reupload starts once the reupload is over.
ReuploadSettled(u) == u \in {"returned", "thrown"}

\* await reuploadChunks(...) returned: the code after the try block runs.
ReuploadReturned(u) == u = "returned"

\* One stage of the run started on id; ok: the stage before it had succeeded.
StageStarted(name, id, ok) == Append(started, [stage |-> name, id |-> id, ok |-> ok])

InitFix ==
  /\ pc = "idle"
  /\ allPeers = <<>>
  /\ peerIdx = 1
  /\ errors = <<>>
  /\ contacted = <<>>
  /\ failedBefore = FALSE
  /\ answer = NoAnswer
  /\ range = NoRange
  /\ startOffset = 0
  /\ nextPos = 0
  /\ bytesAccum = 0
  /\ buffers = <<>>
  /\ window = NoWindow
  /\ repeat = FALSE
  /\ stall = 0
  /\ honest = TRUE
  /\ file \in {NoFile, OldFile}
  /\ file0 = file
  /\ failure = None
  /\ causes = <<>>
  /\ UploadIdle
  /\ PollIdle
  /\ SideIdle
  /\ stage = "arweave"
  /\ res = NoRes
  /\ fixStatus = None
  /\ lookups = <<>>
  /\ started = <<>>

\* fetchArweaveChunks has returned or thrown: its locals are gone, the file stays.
FetchLeft ==
  /\ pc' = "idle"
  /\ allPeers' = <<>>
  /\ peerIdx' = 1
  /\ errors' = <<>>
  /\ contacted' = <<>>
  /\ failedBefore' = FALSE
  /\ answer' = NoAnswer
  /\ range' = NoRange
  /\ startOffset' = 0
  /\ nextPos' = 0
  /\ bytesAccum' = 0
  /\ buffers' = <<>>
  /\ window' = NoWindow
  /\ repeat' = FALSE
  /\ stall' = 0
  /\ honest' = TRUE
  /\ file' = file
  /\ file0' = file
  /\ failure' = None
  /\ causes' = <<>>

\* reuploadChunks has returned or thrown: its locals are gone.
UploadLeft ==
  /\ upc' = "idle"
  /\ variant' = "mjs"
  /\ totalChunks' = 0
  /\ valid' = <<>>
  /\ i' = 0
  /\ attempt' = 0
  /\ successCount' = 0
  /\ failedChunks' = <<>>
  /\ chunkState' = <<>>
  /\ posts' = <<>>
  /\ validations' = <<>>
  /\ delays' = <<>>
  /\ order' = <<>>
  /\ allPresent' = TRUE
  /\ latePost' = FALSE

\* checkTx returned r: fixArweaveTx returns a status, or calls fetchArweaveChunks
\* on the bundle id, which builds its peer list and enters fetchTxOffset.
LookupReturned(r) ==
  /\ res' = r
  /\ IF AfterLookup(r.source) # None
     THEN /\ stage' = "returned"
          /\ fixStatus' = AfterLookup(r.source)
          /\ UNCHANGED <<started, fetchVars>>
     ELSE /\ stage' = "fetch"
          /\ fixStatus' = fixStatus
          /\ started' = StageStarted("fetch", r.bundle_id, r.source = "irys")
          /\ pc' = "offset"
          /\ allPeers' = [k \in 1..NumPeers |-> k]
          /\ file0' = file
          /\ UNCHANGED <<peerIdx, errors, contacted, failedBefore, answer, range,
                         startOffset, nextPos, bytesAccum, buffers, window, repeat,
                         stall, honest, file, failure, causes>>

\* checkTx: checkTxArweaveExists; found: source 'arweave', Irys is not asked.
CheckArweave ==
  /\ stage = "arweave"
  /\ \E head \in HeadAnswers :
       /\ lookups' = Append(lookups, [service |-> "arweave",
                                      found |-> CheckTxArweaveExists(head)])
       /\ IF CheckTxArweaveExists(head)
          THEN LookupReturned([source |-> "arweave", bundle_id |-> None])
          ELSE /\ stage' = "irys"
               /\ UNCHANGED <<res, fixStatus, started, fetchVars>>
  /\ UNCHANGED <<uploadVars, pollVars, sideVars>>

\* checkTx: checkTxIrysBundle; a bundle: source 'irys', else source 'none'.
CheckIrys ==
  /\ stage = "irys"
  /\ \E irys \in IrysAnswers :
       /\ lookups' = Append(lookups, [service |-> "irys",
                                      found |-> CheckTxIrysBundle(irys)])
       /\ IF CheckTxIrysBundle(irys)
          THEN LookupReturned([source |-> "irys", bundle_id |-> irys.bundleTxId])
          ELSE LookupReturned([source |-> "none", bundle_id |-> None])
  /\ UNCHANGED <<uploadVars, pollVars, sideVars>>

\* await fetchArweaveChunks(...) threw: the catch logs and rethrows.
FixFetchFailed ==
  /\ stage = "fetch"
  /\ pc = "failed"
  /\ stage' = "thrown"
  /\ UNCHANGED <<res, fixStatus, lookups, started>>
  /\ UNCHANGED <<fetchVars, uploadVars, pollVars, sideVars>>

\* await fetchArweaveChunks(...) returned; reuploadChunks finds the file, loads it,
\* gets the transaction, rebuilds the chunks and reaches its for loop.
FixReuploadStart ==
  /\ stage = "fetch"
  /\ pc = "done"
  /\ file.exists
  /\ stage' = "reupload"
  /\ started' = StageStarted("reupload", res.bundle_id,
                             file.exists /\ file = FileOf(Concat(buffers))
                               /\ Len(file.data) = range.size)
  /\ FetchLeft
  /\ upc' = "for"
  /\ \E n \in 0..FixChunks :
       /\ totalChunks' = n
       /\ valid' \in [0..(n - 1) -> BOOLEAN]
       /\ chunkState' = [k \in 0..(n - 1) |-> "pending"]
       /\ posts' = [k \in 0..(n - 1) |-> 0]
       /\ validations' = [k \in 0..(n - 1) |-> 0]
  /\ UNCHANGED <<variant, i, attempt, successCount, failedChunks, delays, order,
                 allPresent, latePost>>
  /\ UNCHANGED <<res, fixStatus, lookups>>
  /\ UNCHANGED <<pollVars, sideVars>>

\* await fetchArweaveChunks(...) returned; reuploadChunks throws before its loop
\* (file not found, arweave.transactions.get or getUploader throws).
FixReuploadSetupFails ==
  /\ stage = "fetch"
  /\ pc = "done"
  /\ stage' = "thrown"
  /\ started' = StageStarted("reupload", res.bundle_id,
                             file.exists /\ file = FileOf(Concat(buffers))
                               /\ Len(file.data) = range.size)
  /\ FetchLeft
  /\ UNCHANGED <<res, fixStatus, lookups>>
  /\ UNCHANGED <<uploadVars, pollVars, sideVars>>

\* await reuploadChunks(...) threw: the catch logs and rethrows.
FixReuploadFailed ==
  /\ stage = "reupload"
  /\ upc = "thrown"
  /\ stage' = "thrown"
  /\ UNCHANGED <<res, fixStatus, lookups, started>>
  /\ UNCHANGED <<fetchVars, uploadVars, pollVars, sideVars>>

\* await reuploadChunks(...) returned: pollArweave(txid, { logger }) is called.
FixPollStart ==
  /\ stage = "reupload"
  /\ ReuploadReturned(upc)
  /\ stage' = "poll"
  /\ started' = StageStarted("poll", "txid",
                             /\ upc = "returned"
                             /\ \A k \in DOMAIN chunkState : chunkState[k] = "accepted"
                             /\ DOMAIN chunkState = 0..(totalChunks - 1))
  /\ UploadLeft
  /\ \E max \in 1..MaxAttempts : PollEntered(max)
  /\ UNCHANGED <<res, fixStatus, lookups>>
  /\ UNCHANGED <<fetchVars, sideVars>>

\* await pollArweave(...) resolved: return { status: 'fixed' }.
FixPollResolved ==
  /\ stage = "poll"
  /\ ppc = "resolved"
  /\ stage' = "returned"
  /\ fixStatus' = "fixed"
  /\ UNCHANGED <<res, lookups, started>>
  /\ UNCHANGED <<fetchVars, uploadVars, pollVars, sideVars>>

\* await pollArweave(...) rejected: the catch logs and rethrows.
FixPollRejected ==
  /\ stage = "poll"
  /\ ppc = "rejected"
  /\ stage' = "thrown"
  /\ UNCHANGED <<res, fixStatus, lookups, started>>
  /\ UNCHANGED <<fetchVars, uploadVars, pollVars, sideVars>>

NextFix ==
  \/ CheckArweave
  \/ CheckIrys
  \/ PeerThrows
  \/ OffsetPeerMalformed
  \/ OffsetPeerAnswers
  \/ LoopEnter
  \/ LoopExit
  \/ ChunkPeerMalformed
  \/ ChunkPeerAnswers
  \/ SliceStep
  \/ Finish
  \/ FixFetchFailed
  \/ FixReuploadStart
  \/ FixReuploadSetupFails
  \/ ForEnter
  \/ ForExit
  \/ ValidationFails
  \/ PostAccepted
  \/ PostRejected
  \/ SleepDone
  \/ End
  \/ FixReuploadFailed
  \/ FixPollStart
  \/ PollCheck
  \/ PollTimer
  \/ FixPollResolved
  \/ FixPollRejected

SpecFix == InitFix /\ [][NextFix]_vars

\* ------------------------------------------------------------ POST /fix server
Requests == 1..NumRequests

\* console.log / console.error as patched by the handler of request r (part_000
\* 29-38): res.write(msg), then origLog / origError.
Patched(r) == [kind |-> "patched", req |-> r]

\* logger / errorLogger of request r (index.mjs 24-33): res.write(msg), then
\* process.stdout / process.stderr.
Threaded(r) == [kind |-> "threaded", req |-> r]

\* The responses a call of fn writes to; which is "log" or "error", o the origLog
\* and origError the patched functions have closed over.
RECURSIVE Writes(_, _, _)
Writes(fn, which, o) ==
  IF fn.kind = "original" THEN {}
  ELSE IF fn.kind = "threaded" THEN {fn.req}
  ELSE {fn.req} \cup Writes(o[fn.req][which], which, o)

\* The run of request r calls fn with one log line.
Emit(r, fn, which, o) ==
  LET to == Writes(fn, which, o)
  IN /\ lines' = [lines EXCEPT ![r] = @ + 1]
     /\ received' = [q \in Requests |-> IF q \in to THEN received[q] \cup {r}
                                        ELSE received[q]]
     /\ lateWrite' = (lateWrite \/ \E q \in to : rpc[q] = "done")

InitServer ==
  /\ FetchIdle
  /\ UploadIdle
  /\ PollIdle
  /\ FixIdle
  /\ RaceIdle
  /\ ListIdle
  /\ DiscoverIdle
  /\ handler \in {"index", "part_000"}
  /\ console = OriginalConsole
  /\ rpc = [r \in Requests |-> "idle"]
  /\ orig = [r \in Requests |-> OriginalConsole]
  /\ logger = [r \in Requests |-> OriginalConsole]
  /\ lines = [r \in Requests |-> 0]
  /\ received = [r \in Requests |-> {}]
  /\ lateWrite = FALSE

\* POST /fix without a txid: 400, nothing else.
FixMissingTxid(r) ==
  /\ rpc[r] = "idle"
  /\ rpc' = [rpc EXCEPT ![r] = "done"]
  /\ UNCHANGED <<handler, console, orig, logger, lines, received, lateWrite>>
  /\ UNCHANGED <<fetchVars, uploadVars, pollVars, fixVars, raceVars, listVars,
                 discoverVars>>

\* POST /fix: the handler up to its await. part_000 saves and patches console.log
\* and console.error and calls fixArweaveTx(txid), whose logger and errorLogger
\* default to what console.log and console.error are at the call; index.mjs calls
\* it with the loggers of the request. fixArweaveTx logs its first line before
\* its first await.
FixHandlerStart(r) ==
  /\ rpc[r] = "idle"
  /\ rpc' = [rpc EXCEPT ![r] = "running"]
  /\ IF handler = "part_000"
     THEN /\ orig' = [orig EXCEPT ![r] = console]
          /\ console' = [log |-> Patched(r), error |-> Patched(r)]
          /\ logger' = [logger EXCEPT ![r] = [log |-> Patched(r), error |-> Patched(r)]]
     ELSE /\ logger' = [logger EXCEPT ![r] = [log |-> Threaded(r), error |-> Threaded(r)]]
          /\ UNCHANGED <<orig, console>>
  /\ Emit(r, logger'[r].log, "log", orig')
  /\ UNCHANGED handler
  /\ UNCHANGED <<fetchVars, uploadVars, pollVars, fixVars, raceVars, listVars,
                 discoverVars>>

\* The run of request r logs a line through logger or errorLogger.
FixRunLogs(r) ==
  /\ rpc[r] = "running"
  /\ lines[r] < MaxLines
  /\ \E which \in {"log", "error"} : Emit(r, logger[r][which], which, orig)
  /\ UNCHANGED <<handler, console, rpc, orig, logger>>
  /\ UNCHANGED <<fetchVars, uploadVars, pollVars, fixVars, raceVars, listVars,
                 discoverVars>>

\* await fixArweaveTx(...) settled: DONE or ERROR is written, res.end(), and
\* part_000 puts origLog and origError back in its finally block.
FixHandlerEnd(r) ==
  /\ rpc[r] = "running"
  /\ rpc' = [rpc EXCEPT ![r] = "done"]
  /\ console' = IF handler = "part_000" THEN orig[r] ELSE console
  /\ UNCHANGED <<handler, orig, logger, lines, received, lateWrite>>
  /\ UNCHANGED <<fetchVars, uploadVars, pollVars, fixVars, raceVars, listVars,
                 discoverVars>>

NextServer ==
  \/ \E r \in Requests : FixMissingTxid(r)
  \/ \E r \in Requests : FixHandlerStart(r)
  \/ \E r \in Requests : FixRunLogs(r)
  \/ \E r \in Requests : FixHandlerEnd(r)

SpecServer == InitServer /\ [][NextServer]_vars

\* ------------------------------------- concurrent runs on one <bundle id>.bin
\* Runs of fixArweaveTx in one Node process (overlapping /fix requests for the
\* same txid). The runs interleave at their awaits; the code between two awaits
\* runs to completion.
Runs == 1..NumRequests

\* The n bytes run r has assembled; the peers of two runs need not agree.
Payload(r, n) == [k \in 1..n |-> 100 * r + k]

NotRead == [exists |-> FALSE, data |-> <<0 - 1>>]

\* Mutant: reuploadChunks is called while the fetch is still under way.
FetchNotAwaited(st) == st \in {"loop", "written"}

\* await fetchArweaveChunks(...) has returned when reuploadChunks is called.
FetchAwaited(st) == st = "written"

\* while (bytesAccum < size) is over.
LoopOver(acc, size) == ~(acc < size)

InitRace ==
  /\ FetchIdle
  /\ UploadIdle
  /\ PollIdle
  /\ FixIdle
  /\ ServerIdle
  /\ ListIdle
  /\ DiscoverIdle
  /\ artifact \in {NoFile, OldFile}
  /\ rstage = [r \in Runs |-> "offset"]
  /\ rsize = [r \in Runs |-> 0]
  /\ racc = [r \in Runs |-> 0]
  /\ rdata = [r \in Runs |-> NotRead]

\* await fetchTxOffset(...) of run r returns a size.
RaceOffset(r) ==
  /\ rstage[r] = "offset"
  /\ rstage' = [rstage EXCEPT ![r] = "loop"]
  /\ \E size \in 0..MaxSize : rsize' = [rsize EXCEPT ![r] = size]
  /\ UNCHANGED <<artifact, racc, rdata>>
  /\ UNCHANGED <<fetchVars, uploadVars, pollVars, fixVars, serverVars, listVars,
                 discoverVars>>

\* await fetchTxOffset(...) or await fetchChunk(...) of run r throws.
RaceFetchFails(r) ==
  /\ rstage[r] \in {"offset", "loop"}
  /\ rstage[r] = "loop" => racc[r] < rsize[r]
  /\ rstage' = [rstage EXCEPT ![r] = "thrown"]
  /\ UNCHANGED <<artifact, rsize, racc, rdata>>
  /\ UNCHANGED <<fetchVars, uploadVars, pollVars, fixVars, serverVars, listVars,
                 discoverVars>>

\* await fetchChunk(...) of run r returns: the usable slice is pushed to buffers.
RaceChunk(r) ==
  /\ rstage[r] = "loop"
  /\ racc[r] < rsize[r]
  /\ \E n \in 1..MaxChunk :
       /\ n <= rsize[r] - racc[r]
       /\ racc' = [racc EXCEPT ![r] = @ + n]
  /\ UNCHANGED <<artifact, rstage, rsize, rdata>>
  /\ UNCHANGED <<fetchVars, uploadVars, pollVars, fixVars, serverVars, listVars,
                 discoverVars>>

\* The loop of run r is over: Buffer.concat, the length check, writeFileSync, all
\* without an await.
RaceWrite(r) ==
  /\ rstage[r] = "loop"
  /\ LoopOver(racc[r], rsize[r])
  /\ artifact' = ArtifactAfter(artifact, Payload(r, racc[r]), rsize[r])
  /\ rstage' = [rstage EXCEPT ![r] = IF racc[r] # rsize[r] THEN "thrown" ELSE "written"]
  /\ UNCHANGED <<rsize, racc, rdata>>
  /\ UNCHANGED <<fetchVars, uploadVars, pollVars, fixVars, serverVars, listVars,
                 discoverVars>>

\* reuploadChunks of run r: existsSync and readFileSync, up to its first await.
RaceRead(r) ==
  /\ FetchAwaited(rstage[r])
  /\ artifact.exists
  /\ rdata' = [rdata EXCEPT ![r] = artifact]
  /\ rstage' = [rstage EXCEPT ![r] = "read"]
  /\ UNCHANGED <<artifact, rsize, racc>>
  /\ UNCHANGED <<fetchVars, uploadVars, pollVars, fixVars, serverVars, listVars,
                 discoverVars>>

\* The rest of run r: the chunks are rebuilt from the data read, posted, polled.
RaceEnd(r) ==
  /\ rstage[r] = "read"
  /\ rstage' = [rstage EXCEPT ![r] = "done"]
  /\ UNCHANGED <<artifact, rsize, racc, rdata>>
  /\ UNCHANGED <<fetchVars, uploadVars, pollVars, fixVars, serverVars, listVars,
                 discoverVars>>

NextRace ==
  \/ \E r \in Runs : RaceOffset(r)
  \/ \E r \in Runs : RaceFetchFails(r)
  \/ \E r \in Runs : RaceChunk(r)
  \/ \E r \in Runs : RaceWrite(r)
  \/ \E r \in Runs : RaceRead(r)
  \/ \E r \in Runs : RaceEnd(r)

SpecRace == InitRace /\ [][NextRace]_vars

\* ------------------------------------------- the peer list of fetchArweaveChunks
\* A peer text is a sequence of pieces of a string: a blank, a slash, a scheme, or
\* a host with its port.
Schemes == {"http://", "https://", "HTTP://"}

BUILTIN_PEERS == <<
  <<"https://", "arweave.net">>,
  <<"http://", "38.29.227.39:1984">>,
  <<"http://", "38.29.227.41:1984">>,
  <<"http://", "165.254.143.21:1984">> >>

FixedPeers == <<
  <<"38.29.227.39:1984">>, <<"38.29.227.41:1984">>, <<"38.29.227.85:1984">>,
  <<"165.254.143.21:1984">>, <<"168.119.211.20:1984">>, <<"38.29.227.87:1984">>,
  <<"38.29.227.43:1984">>, <<"38.29.227.89:1984">>, <<"49.12.135.160:1984">>,
  <<"108.238.244.144:2012">>, <<"38.29.227.93:1984">>, <<"165.254.143.17:1984">>,
  <<"165.254.143.25:1984">>, <<"112.120.10.191:1986">>, <<"165.254.143.31:1984">>,
  <<"38.29.227.91:1984">>, <<"165.254.143.27:1984">>, <<"165.254.143.23:1984">>,
  <<"38.29.227.95:1984">>, <<"112.120.10.191:1984">>, <<"47.205.134.63:1985">>,
  <<"74.82.0.180:1995">>, <<"165.254.143.33:1984">>, <<"165.254.143.29:1984">>,
  <<"138.201.218.229:1984">>, <<"112.120.10.191:1985">>, <<"168.119.211.60:1984">>,
  <<"165.254.143.19:1984">>, <<"154.201.1.130:11099">>, <<"74.82.0.180:1986">>,
  <<"3.34.96.164:1984">>, <<"74.82.0.180:1988">> >>

\* The pieces caller-supplied texts are made of.
Pieces == {" ", "/", "http://", "HTTP://", "38.29.227.39:1984"}

RECURSIVE TrimStart(_)
TrimStart(s) == IF s # <<>> /\ Head(s) = " " THEN TrimStart(Tail(s)) ELSE s

RECURSIVE TrimEnd(_)
TrimEnd(s) ==
  IF s # <<>> /\ s[Len(s)] = " " THEN TrimEnd(SubSeq(s, 1, Len(s) - 1)) ELSE s

\* p.trim()
Trim(s) == TrimEnd(TrimStart(s))

\* null, which filter(Boolean) drops as it drops the empty string.
Null == <<>>

\* url.replace(/\/$/, ''): one slash at the end goes, also the last one of a scheme.
DropTrailingSlash(url) ==
  LET last == url[Len(url)]
      front == SubSeq(url, 1, Len(url) - 1)
  IN  IF last = "/" THEN front
      ELSE IF last = "http://" THEN front \o <<"http:/">>
      ELSE IF last = "https://" THEN front \o <<"https:/">>
      ELSE IF last = "HTTP://" THEN front \o <<"HTTP:/">>
      ELSE url

normalisePeer(p) ==
  LET url == Trim(p)
  IN  IF url = <<>> THEN Null
      ELSE DropTrailingSlash(IF Head(url) \notin Schemes THEN <<"http://">> \o url
                             ELSE url)

\* Array.from(new Set(list)): the first occurrence of every value, in order.
RECURSIVE Dedup(_, _)
Dedup(list, seen) ==
  IF list = <<>> THEN <<>>
  ELSE IF Head(list) \in seen THEN Dedup(Tail(list), seen)
  ELSE <<Head(list)>> \o Dedup(Tail(list), seen \cup {Head(list)})

\* [...seed, ...peers] with seed = [...BUILTIN_PEERS, ...(opts.peers || [])]
RawPeers(given) == BUILTIN_PEERS \o given \o FixedPeers

\* .map(normalisePeer).filter(Boolean)
Normalised(list) ==
  SelectSeq([k \in 1..Len(list) |-> normalisePeer(list[k])], LAMBDA u : u # Null)

AllPeersOf(given) == Dedup(Normalised(RawPeers(given)), {})

TextsUpTo(n) == UNION {[1..k -> Pieces] : k \in 0..n}

InitList ==
  /\ FetchIdle
  /\ UploadIdle
  /\ PollIdle
  /\ FixIdle
  /\ ServerIdle
  /\ RaceIdle
  /\ DiscoverIdle
  /\ lpc = "args"
  /\ optsPeers \in UNION {[1..k -> TextsUpTo(MaxText)] : k \in 0..MaxCallerPeers}
  /\ peerTexts = <<>>

\* fetchArweaveChunks up to the list it logs as "Using peers for chunk fetch".
BuildPeerList ==
  /\ lpc = "args"
  /\ lpc' = "built"
  /\ peerTexts' = AllPeersOf(optsPeers)
  /\ UNCHANGED optsPeers
  /\ UNCHANGED <<fetchVars, uploadVars, pollVars, fixVars, serverVars, raceVars,
                 discoverVars>>

NextList == BuildPeerList

SpecList == InitList /\ [][NextList]_vars

\* ---------------------------------------------------------------- discoverPeers
\* The texts seedPeers is made of, and the texts a /peers answer lists.
SeedTexts == {<<"p1">>, <<"http://", "p1">>, <<" ">>}
ListedTexts == {<<"p1">>, <<"p2">>, <<"p3">>, <<"p4">>}

SeqsUpTo(S, n) == UNION {[1..k -> S] : k \in 0..n}

\* GET <norm>/peers: a list of texts, something that is no list, or a throw.
PeersAnswers ==
  {[kind |-> "list", arr |-> a] : a \in SeqsUpTo(ListedTexts, MaxListed)}
    \cup {[kind |-> "object", arr |-> <<>>], [kind |-> "throws", arr |-> <<>>]}

InSeq(x, s) == \E k \in 1..Len(s) : s[k] = x

\* The order of first mention after the texts of list have been mentioned.
RECURSIVE MentionedAfter(_, _)
MentionedAfter(m, list) ==
  IF list = <<>> THEN m
  ELSE LET c == normalisePeer(Head(list))
       IN  MentionedAfter(IF c = Null \/ InSeq(c, m) THEN m ELSE Append(m, c), Tail(list))

\* out.length + queue.length < maxPeers
RoomLeft(outLen, queueLen, max) == outLen + queueLen < max

\* for (const cand of arr) { ... queue.push(c) }
RECURSIVE QueueAfter(_, _, _, _, _)
QueueAfter(q, arr, vis, outLen, max) ==
  IF arr = <<>> THEN q
  ELSE LET c == normalisePeer(Head(arr))
       IN  QueueAfter(IF /\ c # Null
                         /\ c \notin vis
                         /\ ~InSeq(c, q)
                         /\ RoomLeft(outLen, Len(q), max)
                      THEN Append(q, c) ELSE q,
                      Tail(arr), vis, outLen, max)

\* out.slice(0, maxPeers)
SliceTo(s, n) == IF Len(s) > n THEN SubSeq(s, 1, n) ELSE s

InitDiscover ==
  /\ FetchIdle
  /\ UploadIdle
  /\ PollIdle
  /\ FixIdle
  /\ ServerIdle
  /\ RaceIdle
  /\ ListIdle
  /\ dpc = "while"
  /\ maxPeers \in 1..MaxPeersArg
  /\ queue \in SeqsUpTo(SeedTexts, MaxSeeds)
  /\ visited = {}
  /\ out = <<>>
  /\ norm = <<>>
  /\ returned = <<>>
  /\ mentioned = MentionedAfter(<<>>, queue)
  /\ failedCalls = {}
  /\ calls = 0

\* while (queue.length && out.length < maxPeers): shift, normalise, and either
\* continue or add the peer to visited and out and start its /peers call.
DiscoverShift ==
  /\ dpc = "while"
  /\ Len(queue) > 0 /\ Len(out) < maxPeers
  /\ queue' = Tail(queue)
  /\ LET n == normalisePeer(Head(queue))
     IN  IF n = Null \/ n \in visited
         THEN UNCHANGED <<dpc, visited, out, norm, calls>>
         ELSE /\ visited' = visited \cup {n}
              /\ out' = Append(out, n)
              /\ norm' = n
              /\ calls' = calls + 1
              /\ dpc' = "call"
  /\ UNCHANGED <<maxPeers, returned, mentioned, failedCalls>>
  /\ UNCHANGED <<fetchVars, uploadVars, pollVars, fixVars, serverVars, raceVars,
                 listVars>>

\* The /peers call is over: the candidates of a list are queued; a throw, also the
\* one of the for-of over something that is no list, lands in the catch.
DiscoverAnswer ==
  /\ dpc = "call"
  /\ \E a \in PeersAnswers :
       IF a.kind = "list"
       THEN /\ queue' = QueueAfter(queue, a.arr, visited, Len(out), maxPeers)
            /\ mentioned' = MentionedAfter(mentioned, a.arr)
            /\ UNCHANGED failedCalls
       ELSE /\ failedCalls' = failedCalls \cup {norm}
            /\ UNCHANGED <<queue, mentioned>>
  /\ dpc' = "while"
  /\ UNCHANGED <<maxPeers, visited, out, norm, returned, calls>>
  /\ UNCHANGED <<fetchVars, uploadVars, pollVars, fixVars, serverVars, raceVars,
                 listVars>>

\* The while condition fails: return out.slice(0, maxPeers).
DiscoverReturn ==
  /\ dpc = "while"
  /\ ~(Len(queue) > 0 /\ Len(out) < maxPeers)
  /\ returned' = SliceTo(out, maxPeers)
  /\ dpc' = "returned"
  /\ UNCHANGED <<maxPeers, queue, visited, out, norm, mentioned, failedCalls, calls>>
  /\ UNCHANGED <<fetchVars, uploadVars, pollVars, fixVars, serverVars, raceVars,
                 listVars>>

NextDiscover ==
  \/ DiscoverShift
  \/ DiscoverAnswer
  \/ DiscoverReturn

SpecDiscover == InitDiscover /\ [][NextDiscover]_vars

\* ================================================================== claims
PeerCallFailed == pc = "failed" /\ failure # "incomplete"

\* C1: whenever fetchArweaveChunks returns, the payload it wrote is the assembled
\* one and its length is the size fetchTxOffset resolved; with any other assembled
\* length the run throws instead of returning.
C1_ReturnedLengthIsSize ==
  /\ pc = "done" => (file = FileOf(Concat(buffers)) /\ Len(file.data) = range.size)
  /\ (pc = "failed" /\ failure = "incomplete") => Len(Concat(buffers)) # range.size

\* A run that returned after assembling at least two bytes from several windows.
C1_Witness == pc = "done" /\ range.size >= 2 /\ Len(buffers) >= 2

\* C2: as long as every window held the true bytes of the chunk containing the
\* requested position, the slices appended so far are the weave's bytes from
\* startOffset on, each slice continuing where the one before it ended, and the
\* written payload is the weave's slice [startOffset, startOffset + size - 1].
C2_AssembledIsWeaveSlice ==
  honest =>
    /\ Concat(buffers) = Bytes(startOffset, bytesAccum)
    /\ \A k \in 1..(Len(buffers) - 1) :
         buffers[k + 1][1] = buffers[k][Len(buffers[k])] + 1
    /\ pc = "done" => file = FileOf(Bytes(startOffset, range.size))

\* A run that returned a payload of several slices, the last window of which
\* started before the requested position.
C2_Witness ==
  /\ pc = "done"
  /\ honest
  /\ Len(buffers) >= 2
  /\ window.start < nextPos
  /\ window.buf # <<>>

\* C3: a call that had peers fail and then got a well-formed answer returns that
\* answer; a call throws only after it has contacted every peer of the list.
C3_LaterPeerAnswers ==
  /\ PeerCallFailed => Len(contacted) = Len(allPeers)
  /\ InCall => failure = None
  /\ pc = "slice" => window = FetchChunkFromPeer(answer, nextPos)
  /\ (pc = "loop" /\ answer # NoAnswer) =>
       (Dec(range.offset) = answer.offset /\ Dec(range.size) = answer.size)

\* fetchChunk returned a window from the last peer after the peers before it failed.
C3_Witness ==
  /\ pc = "slice"
  /\ Len(contacted) = Len(allPeers)
  /\ window.buf # <<>>

\* C4: a call contacts the peers in list order from the first one, every peer
\* before the answering one having failed, and none after it; the list is the same
\* in every call, whatever failed before.
C4_PeersInListOrder ==
  /\ allPeers = [k \in 1..NumPeers |-> k]
  /\ contacted = SubSeq(allPeers, 1, Len(contacted))
  /\ InCall => (Len(contacted) = peerIdx - 1 /\ Len(errors) = Len(contacted))
  /\ pc = "slice" => Len(contacted) = peerIdx
  /\ (pc = "loop" /\ answer # NoAnswer) => Len(contacted) = peerIdx

\* A chunk call contacts the first peer again after that peer failed in an earlier call.
C4_Witness ==
  /\ failedBefore
  /\ pc = "chunk"
  /\ Len(contacted) >= 1
  /\ contacted[1] = allPeers[1]

\* C5: a call throws only when every peer has failed, no peer is contacted twice
\* in one call, and the thrown error carries one error per peer, in list order.
C5_OneErrorPerPeer ==
  /\ \A a, b \in 1..Len(contacted) : a # b => contacted[a] # contacted[b]
  /\ Len(contacted) <= Len(allPeers)
  /\ PeerCallFailed =>
       /\ Len(causes) = Len(allPeers)
       /\ \A k \in 1..Len(causes) : causes[k].peer = allPeers[k]

\* fetchTxOffset threw after a malformed response and a transport error.
C5_Witness ==
  /\ PeerCallFailed
  /\ failure = "offset: no peer"
  /\ \E a, b \in 1..Len(causes) :
       causes[a].kind = "malformed" /\ causes[b].kind = "transport"

\* C6: the first requested position is endOffset - size + 1 of the resolved
\* answer; offset "999" with size "1000" gives 0.
C6_StartOffset ==
  pc = "loop" =>
    /\ nextPos = startOffset
    /\ Dec(range.offset) = answer.offset
    /\ Dec(range.size) = answer.size
    /\ startOffset + range.size = range.offset + 1
    /\ (answer.offset = <<"9", "9", "9">> /\ answer.size = <<"1", "0", "0", "0">>)
         => nextPos = 0

\* The answer {offset: "999", size: "1000"} of the second peer is resolved.
C6_Witness ==
  /\ pc = "loop"
  /\ answer.offset = <<"9", "9", "9">>
  /\ answer.size = <<"1", "0", "0", "0">>
  /\ Len(contacted) = 2

\* C7 (as claimed): once a chunk request has repeated the position of the request
\* before it, the run fails and issues no further chunk request.
C7_NoRequestAfterStall == stall < 2

\* C8: the artifact is the one the run found until the run returns; it is written
\* once, with the full payload of exactly size bytes.
C8_ArtifactOnlyOnSuccess ==
  /\ pc # "done" => file = file0
  /\ file # file0 => (pc = "done" /\ file.exists /\ Len(file.data) = range.size)

\* A run that failed after it had assembled part of the payload, with an artifact
\* of an earlier run in place.
C8_Witness ==
  /\ pc = "failed"
  /\ file0 = OldFile
  /\ buffers # <<>>
  /\ bytesAccum < range.size

\* C9: the chunks are entered in the order 0, 1, 2, ..., each once, and a chunk is
\* validated or posted only when every chunk before it is accepted or failed.
C9_AscendingOrder ==
  /\ order = [k \in 1..Len(order) |-> k - 1]
  /\ \A j \in DOMAIN posts :
       (posts[j] > 0 \/ validations[j] > 0) =>
         \A k \in 0..(j - 1) : chunkState[k] # "pending"

\* The third chunk is entered after the first one failed and the second one was
\* accepted on a retry.
C9_Witness ==
  /\ Len(order) >= 3
  /\ chunkState[0] = "failed"
  /\ chunkState[1] = "accepted"
  /\ posts[1] >= 2

\* C10 (as claimed): a chunk whose validation fails is recorded as failed at once:
\* it is validated once, no retry is counted and no backoff is slept for it.
C10_ValidationFailureNotRetried ==
  \A j \in DOMAIN valid :
    ~valid[j] =>
      /\ validations[j] <= 1
      /\ validations[j] = 1 => chunkState[j] = "failed"
      /\ (i = j /\ upc \in {"try", "sleep"}) => (attempt = 0 /\ delays = <<>>)

\* The loop is over: the run returned, threw or exited, or is about to.
UploadOver == upc \in {"end", "returned", "thrown", "exited"}

AllValid == \A k \in DOMAIN valid : valid[k]

\* The POSTs of chunk k that were not answered 200 or 208.
Rejections(k) == posts[k] - (IF chunkState[k] = "accepted" THEN 1 ELSE 0)

\* C11: no chunk is POSTed again once a POST of it was answered 200 or 208; and in
\* a run over chunks that validate where every POST is answered 208, no attempt is
\* counted, no backoff is slept, every chunk passed is accepted with exactly one
\* POST, and the run returns with every chunk accepted.
C11_AcceptedEndsChunk ==
  /\ ~latePost
  /\ \A k \in DOMAIN chunkState : chunkState[k] = "accepted" => k < i
  /\ (allPresent /\ AllValid) =>
       /\ attempt = 0
       /\ delays = <<>>
       /\ failedChunks = <<>>
       /\ \A k \in DOMAIN posts : posts[k] = (IF k < i THEN 1 ELSE 0)
       /\ \A k \in DOMAIN chunkState : k < i => chunkState[k] = "accepted"
       /\ upc \notin {"thrown", "exited"}
       /\ (variant = "mjs" /\ UploadOver) => successCount = totalChunks

\* A run of three chunks or more returned after 208 was the answer to every POST.
C11_Witness ==
  /\ upc = "returned"
  /\ variant = "mjs"
  /\ totalChunks >= 3
  /\ allPresent
  /\ \A k \in DOMAIN posts : posts[k] = 1

\* C12: a chunk is retried at most MAX_RETRIES_PER_CHUNK times, that is validated
\* and POSTed at most once more than that, a try only starts while the attempt
\* counter is within the budget, and a chunk given up is never POSTed again.
C12_RetriesWithinBudget ==
  /\ attempt <= MAX_RETRIES_PER_CHUNK + 1
  /\ Len(delays) <= MAX_RETRIES_PER_CHUNK
  /\ upc \in {"try", "sleep"} => attempt <= MAX_RETRIES_PER_CHUNK
  /\ \A k \in DOMAIN posts :
       /\ posts[k] <= MAX_RETRIES_PER_CHUNK + 1
       /\ validations[k] <= MAX_RETRIES_PER_CHUNK + 1
       /\ chunkState[k] = "failed" => (k < i /\ validations[k] = MAX_RETRIES_PER_CHUNK + 1)
  /\ ~latePost

\* A chunk used up its budget on rejected POSTs and the chunk after it was POSTed.
C12_Witness ==
  \E k \in DOMAIN posts :
    /\ chunkState[k] = "failed"
    /\ posts[k] = MAX_RETRIES_PER_CHUNK + 1
    /\ k + 1 \in DOMAIN posts
    /\ posts[k + 1] >= 1

\* C13: the n-th backoff delay of a chunk is n * RETRY_DELAY_MS_BASE, the delays of
\* a chunk grow strictly, there is one delay per counted attempt, and a chunk that
\* has not been tried yet starts with the counter at 0 and no delay.
C13_BackoffLinear ==
  /\ \A n \in 1..Len(delays) : delays[n] = n * RETRY_DELAY_MS_BASE
  /\ \A n \in 1..(Len(delays) - 1) : delays[n] < delays[n + 1]
  /\ upc \in {"try", "sleep"} => Len(delays) = attempt
  /\ upc = "sleep" => delays[Len(delays)] = attempt * RETRY_DELAY_MS_BASE
  /\ (upc = "try" /\ validations[i] = 0) => (attempt = 0 /\ delays = <<>>)

\* The second chunk is in its first backoff after the first chunk went through
\* three backoffs or more.
C13_Witness ==
  /\ upc = "sleep"
  /\ i = 1
  /\ validations[0] >= 4
  /\ delays = <<RETRY_DELAY_MS_BASE>>

\* C14 (as claimed): in a run of reuploadChunks over 4 chunks where the POSTs of
\* chunks 0, 1 and 3 are accepted at once and 5 POSTs of chunk 2 or more are
\* rejected, the run throws with failedChunks = [2] and chunks 0, 1, 3 accepted.
C14_ReportsFailedIndexTwo ==
  (/\ variant = "mjs"
   /\ upc \in {"returned", "thrown"}
   /\ totalChunks = 4
   /\ AllValid
   /\ \A k \in {0, 1, 3} : posts[k] = 1 /\ chunkState[k] = "accepted"
   /\ Rejections(2) >= 5)
  => (upc = "thrown" /\ failedChunks = <<2>>)

\* C15 (as claimed): when the loop of reuploadChunks is over, failedChunks holds
\* the indices of the chunks that were given up, each once, and nothing else.
C15_FailedListIsGivenUp ==
  (variant = "mjs" /\ UploadOver) =>
    /\ {failedChunks[n] : n \in 1..Len(failedChunks)}
         = {k \in DOMAIN chunkState : chunkState[k] = "failed"}
    /\ \A m, n \in 1..Len(failedChunks) : failedChunks[m] = failedChunks[n] => m = n

\* C16 (as claimed): when a run is over, every chunk index 0..totalChunks-1 has
\* been tried at least once.
C16_EveryIndexAttempted ==
  upc \in {"returned", "thrown", "exited"} =>
    \A k \in 0..(totalChunks - 1) : validations[k] >= 1

\* C17: reuploadChunks returns only with every chunk accepted and throws only with
\* a chunk given up; when the loop is over every chunk is accepted or given up,
\* successCount counts the accepted ones, failedChunks has one entry per chunk
\* given up, and the two add up to totalChunks.
C17_ReturnsIffAllAccepted ==
  (variant = "mjs" /\ UploadOver) =>
    LET accepted == {k \in DOMAIN chunkState : chunkState[k] = "accepted"}
        givenUp == {k \in DOMAIN chunkState : chunkState[k] = "failed"}
    IN /\ accepted \cup givenUp = 0..(totalChunks - 1)
       /\ successCount = Cardinality(accepted)
       /\ Len(failedChunks) = Cardinality(givenUp)
       /\ successCount + Len(failedChunks) = totalChunks
       /\ upc = "returned" => givenUp = {}
       /\ upc = "thrown" => givenUp # {}

\* The run threw after it accepted two chunks and gave up one.
C17_Witness ==
  /\ variant = "mjs"
  /\ upc = "thrown"
  /\ successCount = 2
  /\ Len(failedChunks) = 1

\* C18: pollArweave settles at most once; it resolves at its first successful
\* probe, which is its last probe; it rejects after exactly maxAttempts probes
\* none of which succeeded, a throwing probe among them; it never makes more than
\* maxAttempts probes and goes on only while no probe has succeeded.
C18_PollSettlesOnce ==
  /\ settles <= 1
  /\ Len(probes) = attempts
  /\ ppc # "idle" => Len(probes) <= maxAttempts
  /\ ppc \in {"check", "timer"} =>
       /\ settles = 0
       /\ Len(probes) < maxAttempts
       /\ \A n \in DOMAIN probes : ~probes[n]
  /\ ppc = "resolved" =>
       /\ settles = 1
       /\ probes # <<>>
       /\ ProbeOk(lastHead)
       /\ \A n \in DOMAIN probes : probes[n] <=> n = Len(probes)
  /\ ppc = "rejected" =>
       /\ settles = 1
       /\ Len(probes) = maxAttempts
       /\ \A n \in DOMAIN probes : ~probes[n]

\* The poller rejected after three probes or more, the last of which threw.
C18_Witness ==
  /\ ppc = "rejected"
  /\ maxAttempts >= 3
  /\ lastHead = Throws

\* The stages of fixArweaveTx, in the order of the code.
StageOrder == <<"fetch", "reupload", "poll">>

\* C19: the stages start in the order fetch, reupload, poll, each at most once;
\* fetch starts only on source 'irys', reupload only after fetchArweaveChunks
\* returned with the artifact written, polling only after reuploadChunks returned
\* with every chunk accepted; a run that threw started nothing after the stage
\* that threw and returns no status; 'fixed' is returned only after the three
\* stages started and the poll resolved.
C19_StagesGated ==
  /\ Len(started) <= 3
  /\ \A n \in DOMAIN started : started[n].stage = StageOrder[n] /\ started[n].ok
  /\ stage \in {"idle", "arweave", "irys"} => started = <<>>
  /\ stage = "fetch" => Len(started) = 1
  /\ stage = "reupload" => Len(started) = 2
  /\ stage = "poll" => Len(started) = 3
  /\ stage = "thrown" =>
       /\ fixStatus = None
       /\ pc = "failed" => Len(started) = 1
       /\ (pc # "failed" /\ ppc = "idle") => Len(started) = 2
       /\ ppc # "idle" => (ppc = "rejected" /\ Len(started) = 3)
  /\ fixStatus = "fixed" =>
       /\ stage = "returned"
       /\ Len(started) = 3
       /\ ppc = "resolved"
       /\ file.exists

\* A run returned 'fixed' after it wrote a payload of two bytes or more and the
\* poll needed two probes or more.
C19_Witness ==
  /\ fixStatus = "fixed"
  /\ Len(file.data) >= 2
  /\ Len(probes) >= 2

\* Nothing of fetch, reupload or poll has happened.
NoWork ==
  /\ started = <<>>
  /\ pc = "idle"
  /\ contacted = <<>>
  /\ file = file0
  /\ upc = "idle"
  /\ posts = <<>>
  /\ ppc = "idle"
  /\ probes = <<>>

\* C20: a stage is started only in a run whose lookup returned source 'irys'; a
\* lookup that found the tx on Arweave ends the run with 'already_on_arweave', one
\* that found no finalized bundle ends it with 'not_found_on_irys', both with no
\* peer contacted, the file untouched, no chunk POSTed and no probe made; checkTx
\* asks Arweave first and Irys only after Arweave did not have the tx.
C20_OnlyIrysStartsWork ==
  /\ started # <<>> => res.source = "irys"
  /\ ~NoWork => res.source = "irys"
  /\ res.source = "arweave" => (stage = "returned" /\ fixStatus = "already_on_arweave")
  /\ res.source = "none" => (stage = "returned" /\ fixStatus = "not_found_on_irys")
  /\ fixStatus = "already_on_arweave" => (res.source = "arweave" /\ NoWork)
  /\ fixStatus = "not_found_on_irys" => (res.source = "none" /\ NoWork)
  /\ \A n \in DOMAIN lookups :
       /\ n <= 2
       /\ lookups[n].service = (IF n = 1 THEN "arweave" ELSE "irys")
       /\ n = 2 => ~lookups[1].found
  /\ res.source = "arweave" => Len(lookups) = 1
  /\ res.source \in {"irys", "none"} => Len(lookups) = 2

\* A run over an artifact left by an earlier run returned 'not_found_on_irys'.
C20_Witness ==
  /\ fixStatus = "not_found_on_irys"
  /\ file = OldFile
  /\ Len(lookups) = 2

\* C21 (as claimed): whatever the requests do, the response of a request holds
\* log lines of its own run only, a run that has logged has its lines in its own
\* response, and console.log and console.error stay the functions Node installed.
C21_LogsIsolated ==
  /\ \A r \in DOMAIN received : received[r] \subseteq {r}
  /\ \A r \in DOMAIN lines : lines[r] > 0 => r \in received[r]
  /\ console = OriginalConsole

\* f is the whole payload of a run that has written it, of exactly its size bytes.
CompletePayload(f) ==
  \E w \in DOMAIN rstage :
    /\ rstage[w] \in {"written", "read", "done"}
    /\ f = FileOf(Payload(w, rsize[w]))

RECURSIVE UpToSlash(_)
UpToSlash(s) ==
  IF s = <<>> \/ Head(s) = "/" THEN <<>> ELSE <<Head(s)>> \o UpToSlash(Tail(s))

AddressOf(e) ==
  [scheme |-> IF Head(e) = "HTTP://" THEN "http://" ELSE Head(e),
   host |-> UpToSlash(Tail(e))]

\* The place of the first text of the normalised list texts that equals e.
FirstPlace(e, texts) ==
  CHOOSE k \in 1..Len(texts) : texts[k] = e /\ \A j \in 1..(k - 1) : texts[j] # e

\* The list holds every normalised text once, each where it occurs first among
\* built-in seeds, caller-supplied peers and fixed peers, in that order.
PeerListOrdered ==
  LET raw == RawPeers(optsPeers)
      texts == [k \in 1..Len(raw) |-> normalisePeer(raw[k])]
      place == [n \in 1..Len(peerTexts) |-> FirstPlace(peerTexts[n], texts)]
  IN  /\ \A k \in 1..Len(raw) :
           texts[k] # Null => \E n \in 1..Len(peerTexts) : peerTexts[n] = texts[k]
      /\ \A n \in 1..Len(peerTexts) : \E k \in 1..Len(raw) : peerTexts[n] = texts[k]
      /\ \A n \in 1..(Len(peerTexts) - 1) : place[n] < place[n + 1]

PeerAddressesDistinct ==
  \A m, n \in 1..Len(peerTexts) :
    m # n => AddressOf(peerTexts[m]) # AddressOf(peerTexts[n])

normalisePeerIdempotent ==
  \A k \in 1..Len(optsPeers) :
    LET once == normalisePeer(optsPeers[k])
    IN  once # Null => normalisePeer(once) = once

\* C23 (as claimed): the peer list is ordered built-in seeds, caller-supplied
\* peers, fixed peers with every text at its first occurrence, no two entries
\* denote the same scheme, host and port, and normalising a normalised text
\* changes nothing.
C23_PeerListCanonical ==
  lpc = "built" => /\ PeerListOrdered
                   /\ PeerAddressesDistinct
                   /\ normalisePeerIdempotent

\* The peer's answer is a chunk of the weave that contains the requested position.
AnswerHoldsRequest ==
  /\ pc = "slice"
  /\ answer.chunk # <<>>
  /\ answer.chunk = Bytes(answer.chunk[1], Len(answer.chunk))
  /\ answer.chunk[1] <= nextPos
  /\ nextPos <= answer.chunk[Len(answer.chunk)]

\* C24 (as claimed): when a peer answers with the chunk that contains the
\* requested position, with or without the offset field, the window starts at the
\* chunk's first position, ends at its last, and spans as many positions as bytes.
C24_WindowIsTheChunk ==
  AnswerHoldsRequest =>
    /\ window.start = answer.chunk[1]
    /\ window.end = answer.chunk[Len(answer.chunk)]
    /\ window.end - window.start + 1 = Len(window.buf)

\* C25: a chunk is posted at most as often as its path was validated, every
\* attempt's POST coming after that attempt's validation, and a chunk whose path
\* does not validate is never posted, however often it is tried.
C25_PostOnlyAfterValidation ==
  \A k \in DOMAIN posts :
    /\ posts[k] <= validations[k]
    /\ ~valid[k] => posts[k] = 0
    /\ valid[k] /\ ~(upc \in {"try", "sleep"} /\ i = k) =>
         posts[k] = validations[k]

\* One chunk was validated and posted twice; another failed validation on every
\* attempt until the run gave it up, and was never posted.
C25_Witness ==
  \E j, k \in DOMAIN posts :
    /\ valid[j] /\ posts[j] >= 2
    /\ ~valid[k] /\ validations[k] > MAX_RETRIES_PER_CHUNK /\ posts[k] = 0

\* A response with a success status and a content length above zero.
HasContent(head) ==
  /\ head.kind = "response"
  /\ head.status >= 200 /\ head.status < 300
  /\ head.length > 0

\* C26 (as claimed): the availability check of checkTx finds the content only in
\* a response with a success status and a content length above zero, and the
\* poll resolves only on such a response.
C26_ProbesNeedContent ==
  /\ \A head \in HeadAnswers : CheckTxArweaveExists(head) => HasContent(head)
  /\ ppc = "resolved" => HasContent(lastHead)

\* The front trim of the window in hand.
FrontTrim == SliceStart(window.start, nextPos)

AccumulatedWithinSize ==
  pc \in {"chunk", "slice"} =>
    /\ bytesAccum <= range.size
    /\ bytesAccum = Len(Concat(buffers))

SliceWithinRemaining ==
  pc = "slice" =>
    Len(Usable(window.buf, FrontTrim, range.size - bytesAccum)) <= range.size - bytesAccum

FrontTrimIsOverlap ==
  pc = "slice" =>
    FrontTrim = (IF nextPos - window.start > 0 THEN nextPos - window.start ELSE 0)

FrontTrimWithinWindow == pc = "slice" => FrontTrim <= Len(window.buf)

\* C27 (as claimed): inside the assembly loop the accumulated length is at most
\* size, the slice about to be appended is at most the bytes still missing, and
\* the front trim is max(0, nextPos - window.start), at most the window's length.
C27_SlicesWithinBounds ==
  /\ AccumulatedWithinSize
  /\ SliceWithinRemaining
  /\ FrontTrimIsOverlap
  /\ FrontTrimWithinWindow

\* C28 (as claimed): with every network call returning or failing in the end, the
\* run ends, by returning after the write or by throwing.
C28_FetchTerminates == <>(pc \in {"done", "failed"})

\* C29 (as claimed): a run that has written the artifact and returned assembled
\* from a range of a size above zero that starts at position 0 or later.
C29_WrittenRangeIsProper ==
  pc = "done" => range.size > 0 /\ startOffset >= 0

\* The place of e in s.
PlaceIn(e, s) == CHOOSE k \in 1..Len(s) : s[k] = e

ReturnedDistinct ==
  \A m, n \in 1..Len(returned) : m # n => returned[m] # returned[n]

ReturnedNormalised ==
  \A n \in 1..Len(returned) : returned[n] # Null /\ InSeq(returned[n], mentioned)

\* The peers come in the order of their first mention: the seeds, then what the
\* first peer listed, then what the second one listed, and so on.
ReturnedBreadthFirst ==
  \A m, n \in 1..Len(returned) :
    m < n => PlaceIn(returned[m], mentioned) < PlaceIn(returned[n], mentioned)

FailedPeersKept == \A f \in failedCalls : InSeq(f, out)

\* C30 (as claimed): discoverPeers makes at most maxPeers calls, and the list it
\* returns holds normalised texts, none twice, at most maxPeers of them, in
\* breadth-first order from the seeds, the peers whose /peers call failed or
\* gave no list among them.
C30_DiscoveryBreadthFirst ==
  /\ calls <= maxPeers
  /\ FailedPeersKept
  /\ dpc = "returned" =>
       /\ Len(returned) <= maxPeers
       /\ ReturnedNormalised
       /\ ReturnedDistinct
       /\ ReturnedBreadthFirst
       /\ \A f \in failedCalls : InSeq(f, returned)

AllRequestsDone == \A r \in DOMAIN rpc : rpc[r] = "done"

\* C31 (as claimed): in the console-patching handler, once every request has
\* completed, console.log and console.error are the functions that were
\* installed before the first request.
C31_ConsoleRestored ==
  (handler = "part_000" /\ DOMAIN rpc # {} /\ AllRequestsDone) => console = OriginalConsole

====
